---- MODULE Spec2Model ----
(***************************************************************************)
(* Smart Task Analyzer: the priority scoring engine (backend/scoring.py),  *)
(* the request schema (backend/schemas.py) and the feedback store          *)
(* (backend/feedback.py).                                                  *)
(*                                                                         *)
(* Units.  Python floats are modelled as exact fixed-point integers:       *)
(*   - sub-scores (urgency, importance, effort, dependency): tenths;       *)
(*   - scoring weights: hundredths; priority_score: hundredths;            *)
(*   - estimated_hours: tenths of an hour;                                 *)
(*   - feedback weights and weight adjustments: thousandths.               *)
(* Instants are counted in ticks, TicksPerDay ticks to a calendar day;     *)
(* day 0 is 2025-01-01 (a Wednesday), tick 0 of a day is midnight.         *)
(***************************************************************************)
EXTENDS Integers, Sequences, FiniteSets, Bags, TLC

VARIABLES
    scorer,               \* TaskScorer: [strategy, use_business_days]
    now,                  \* the wall clock read by datetime.now()
    tasks,                \* the batch handed to the scorer
    due_date_str,         \* the string handed to calculate_urgency_score
    feedback_history,     \* FeedbackStore.feedback_history (bag of entries)
    strategy_preferences, \* FeedbackStore.strategy_preferences
    weight_adjustments,   \* FeedbackStore.weight_adjustments
    calls,                \* add_feedback calls in flight, one per thread
    ret                   \* outcome of the latest call: [op, exc, value, ...]

vars == <<scorer, now, tasks, due_date_str, feedback_history,
          strategy_preferences, weight_adjustments, calls, ret>>

(***************************************************************************)
(* Bounds of the model.                                                    *)
(***************************************************************************)
MaxDay == 35          \* the calendar window is day 0 .. MaxDay
TicksPerDay == 3      \* instants per calendar day (midnight, morning, evening)
MaxNodes == 3         \* batch size of the dependency-graph specification
MaxTasks == 3         \* batch size of the scoring specification
MaxFeedback == 11     \* number of add_feedback calls followed
MaxCallers == 2       \* threads calling add_feedback at the same time
MaxAnyFeedback == 4   \* add_feedback calls followed when any name is passed
MaxDependents == 6    \* other tasks of the dependency-score batches

Min(a, b) == IF a <= b THEN a ELSE b
Max(a, b) == IF a >= b THEN a ELSE b
Abs(a) == IF a < 0 THEN -a ELSE a

NoCall == [op |-> "none", exc |-> "none"]

(***************************************************************************)
(* datetime                                                                *)
(***************************************************************************)
\* A datetime value: aware (carries a UTC offset) or naive, at instant t.
DateTime(aware, t) == [aware |-> aware, t |-> t]

\* str.replace('Z', '+00:00') on the forms an ISO-8601 string can take.
ReplaceZ(s) ==
    IF s.form = "datetime_z" THEN [s EXCEPT !.form = "datetime_offset"] ELSE s

\* datetime.fromisoformat: a date alone parses to naive midnight, a date and
\* time to a naive datetime, a trailing offset to an aware datetime, anything
\* else raises ValueError.  (A bare trailing 'Z' is handed over only when
\* ReplaceZ was skipped; Python 3.11 parses it as UTC.)
fromisoformat(s) ==
    CASE s.form = "date" ->
            [exc |-> "none", value |-> DateTime(FALSE, s.day * TicksPerDay)]
      [] s.form = "datetime" ->
            [exc |-> "none", value |-> DateTime(FALSE, s.day * TicksPerDay + s.tick)]
      [] s.form \in {"datetime_offset", "datetime_z"} ->
            [exc |-> "none", value |-> DateTime(TRUE, s.day * TicksPerDay + s.tick)]
      [] OTHER -> [exc |-> "ValueError"]

DayOf(t) == t \div TicksPerDay

\* date.weekday(): Monday is 0; day 0 (2025-01-01) is a Wednesday.
weekday(date) == (DayOf(date.t) + 2) % 7

\* TaskScorer.HOLIDAYS_2025 as day numbers of 2025.
HOLIDAYS_2025 == {0, 19, 47, 145, 184, 243, 285, 314, 330, 358}

is_weekend(date) == weekday(date) >= 5

is_holiday(date) == DayOf(date.t) \in HOLIDAYS_2025

\* The day-by-day walk of calculate_business_days for start <= end.
RECURSIVE CountBusinessDays(_, _)
CountBusinessDays(current, end) ==
    IF current < end
    THEN (IF ~is_weekend(DateTime(FALSE, current)) /\ ~is_holiday(DateTime(FALSE, current))
          THEN 1 ELSE 0)
         + CountBusinessDays(current + TicksPerDay, end)
    ELSE 0

\* Comparing or subtracting a naive and an aware datetime raises TypeError.
calculate_business_days(start_date, end_date) ==
    IF start_date.aware # end_date.aware
    THEN [exc |-> "TypeError"]
    ELSE IF start_date.t > end_date.t
         THEN [exc |-> "none", value |-> -CountBusinessDays(end_date.t, start_date.t)]
         ELSE [exc |-> "none", value |-> CountBusinessDays(start_date.t, end_date.t)]

(***************************************************************************)
(* Urgency                                                                 *)
(***************************************************************************)
\* Lines 138-155: the bucket of a day delta, in tenths.
UrgencyBucket(days_until_due, weekend_boost) ==
    IF days_until_due < 0
    THEN Min(1000 + Abs(days_until_due) * 100, 2000)
    ELSE IF days_until_due = 0 THEN 950 + weekend_boost
    ELSE IF days_until_due <= 1 THEN 900 + weekend_boost
    ELSE IF days_until_due <= 3 THEN 800 + weekend_boost
    ELSE IF days_until_due <= 7
         THEN (700 - (days_until_due - 3) * 25) + weekend_boost
    ELSE IF days_until_due <= 14
         THEN (550 - (days_until_due - 7) * 20) + weekend_boost
    ELSE IF days_until_due <= 30
         THEN (350 - (days_until_due - 14) * 15) + weekend_boost
    ELSE Max(100, (350 - (days_until_due - 30) * 5) + weekend_boost)

\* (due_date - now).days: whole days, rounded towards minus infinity.
DaysBetween(due_date, current) ==
    IF due_date.aware # current.aware
    THEN [exc |-> "TypeError"]
    ELSE [exc |-> "none", value |-> (due_date.t - current.t) \div TicksPerDay]

\* A day delta d (or the exception it ended with) and the weekend boost.
WithBoost(d, weekend_boost) ==
    IF d.exc # "none" THEN d
    ELSE [exc |-> "none", value |-> d.value, weekend_boost |-> weekend_boost]

\* The day delta and the weekend boost of lines 126-135.
DaysUntilDue(self, due_date, current) ==
    IF self.use_business_days
    THEN WithBoost(calculate_business_days(current, due_date),
                   IF is_weekend(due_date) THEN 100 ELSE 0)
    ELSE WithBoost(DaysBetween(due_date, current), 0)

\* The urgency of a day delta d, or the exception d ended with.
UrgencyOf(d) ==
    IF d.exc # "none" THEN [exc |-> d.exc]
    ELSE [exc |-> "none", value |-> UrgencyBucket(d.value, d.weekend_boost)]

\* The urgency of a parsed due date; ValueError is caught and yields the
\* neutral 50, any other exception propagates.
UrgencyOfParsed(self, parsed, current) ==
    IF parsed.exc = "ValueError" THEN [exc |-> "none", value |-> 500]
    ELSE UrgencyOf(DaysUntilDue(self, parsed.value, DateTime(FALSE, current)))

\* calculate_urgency_score at the instant current.
calculate_urgency_score(self, s, current) ==
    UrgencyOfParsed(self, fromisoformat(ReplaceZ(s)), current)

(***************************************************************************)
(* Dependency graph                                                        *)
(***************************************************************************)
\* Task positions are 0-based as in the source: tasks[i + 1] is task i.
TaskAt(ts, i) == ts[i + 1]

\* The state the nested dfs closure shares: visited, rec_stack, circular_tasks.
RECURSIVE dfs(_, _, _, _)
RECURSIVE dfs_deps(_, _, _, _, _)

\* The loop of lines 89-92 from the k-th dependency of task_idx on; each
\* callee receives its own copy of path.
dfs_deps(ts, st, task_idx, path, k) ==
    LET deps == TaskAt(ts, task_idx).dependencies
    IN  IF k > Len(deps) THEN st
        ELSE LET dep_id == deps[k]
             IN  IF dep_id < Len(ts)
                 THEN LET r == dfs(ts, st, dep_id, path)
                          st1 == IF r.found
                                 THEN [r.st EXCEPT !.circular_tasks = @ \cup {task_idx}]
                                 ELSE r.st
                      IN  dfs_deps(ts, st1, task_idx, path, k + 1)
                 ELSE dfs_deps(ts, st, task_idx, path, k + 1)

\* A dfs that forgets rec_stack.remove(task_idx) (line 94).
dfs_KeepsRecStack(ts, st, task_idx, path) ==
    IF task_idx \in st.rec_stack
    THEN [st |-> [st EXCEPT !.circular_tasks = @ \cup path], found |-> TRUE]
    ELSE IF task_idx \in st.visited
    THEN [st |-> st, found |-> FALSE]
    ELSE LET st1 == [st EXCEPT !.visited = @ \cup {task_idx},
                               !.rec_stack = @ \cup {task_idx}]
             path1 == path \cup {task_idx}
             st2 == IF task_idx >= 0 /\ task_idx < Len(ts)
                    THEN dfs_deps(ts, st1, task_idx, path1, 1)
                    ELSE st1
         IN  [st |-> st2, found |-> FALSE]

\* dfs of lines 76-95; task_map.get yields no task for an index outside
\* 0 .. len(tasks) - 1 (a negative dep_id passes the test of line 90).
dfs(ts, st, task_idx, path) ==
    IF task_idx \in st.rec_stack
    THEN [st |-> [st EXCEPT !.circular_tasks = @ \cup path], found |-> TRUE]
    ELSE IF task_idx \in st.visited
    THEN [st |-> st, found |-> FALSE]
    ELSE LET st1 == [st EXCEPT !.visited = @ \cup {task_idx},
                               !.rec_stack = @ \cup {task_idx}]
             path1 == path \cup {task_idx}
             st2 == IF task_idx >= 0 /\ task_idx < Len(ts)
                    THEN dfs_deps(ts, st1, task_idx, path1, 1)
                    ELSE st1
         IN  [st |-> [st2 EXCEPT !.rec_stack = @ \ {task_idx}], found |-> FALSE]

\* The loop of lines 97-99 from start node i on.
RECURSIVE dfs_roots(_, _, _)
dfs_roots(ts, st, i) ==
    IF i >= Len(ts) THEN st
    ELSE IF i \notin st.visited
         THEN dfs_roots(ts, dfs(ts, st, i, {}).st, i + 1)
         ELSE dfs_roots(ts, st, i + 1)

\* detect_circular_dependencies; the returned list is used as a set.
detect_circular_dependencies(ts) ==
    dfs_roots(ts, [visited |-> {}, rec_stack |-> {}, circular_tasks |-> {}], 0).circular_tasks

(***************************************************************************)
(* Factor scores and the priority score                                    *)
(***************************************************************************)
\* calculate_effort_score: estimated_hours in tenths of an hour.
calculate_effort_score(estimated_hours, strategy) ==
    IF strategy = "fastest_wins"
    THEN IF estimated_hours <= 10 THEN 900
         ELSE IF estimated_hours <= 30 THEN 700
         ELSE IF estimated_hours <= 80 THEN 500
         ELSE 300
    ELSE IF estimated_hours <= 20 THEN 700
         ELSE IF estimated_hours <= 50 THEN 800
         ELSE IF estimated_hours <= 100 THEN 600
         ELSE 400

\* `task_idx in task.dependencies`
InList(x, l) == \E k \in 1 .. Len(l) : l[k] = x

\* calculate_dependency_score: every task of the batch listing task_idx counts.
calculate_dependency_score(task_idx, ts) ==
    LET blocking_count ==
            Cardinality({i \in 1 .. Len(ts) : InList(task_idx, ts[i].dependencies)})
    IN  Min(blocking_count * 200, 1000)

\* The weight table of lines 225-232, in hundredths.
ScoringWeights(strategy) ==
    CASE strategy = "fastest_wins" ->
            [urgency |-> 20, importance |-> 20, effort |-> 50, dependency |-> 10]
      [] strategy = "high_impact" ->
            [urgency |-> 15, importance |-> 60, effort |-> 10, dependency |-> 15]
      [] strategy = "deadline_driven" ->
            [urgency |-> 70, importance |-> 15, effort |-> 5, dependency |-> 10]
      [] OTHER ->
            [urgency |-> 35, importance |-> 30, effort |-> 20, dependency |-> 15]

\* round(score, 2) of a score given in thousandths: to the nearest hundredth,
\* an exact tie to the even neighbour.  (On binary floats the side a decimal
\* tie falls on depends on the representation error of the sum.)
Round2(x) ==
    LET q == x \div 10
        r == x % 10
    IN  IF r < 5 THEN q
        ELSE IF r > 5 THEN q + 1
        ELSE IF q % 2 = 0 THEN q ELSE q + 1

\* The urgency clause of a day delta d; the bare except of line 283 turns
\* every failure of the date arithmetic into a clause of its own.
ClauseOf(d) ==
    IF d.exc # "none" THEN <<"Invalid due date">>
    ELSE IF d.value < 0 THEN <<"OVERDUE">>
    ELSE IF d.value = 0 THEN <<"Due TODAY">>
    ELSE IF d.value <= 3 THEN <<"Due in days">>
    ELSE IF d.value <= 7 THEN <<"Due this week">>
    ELSE <<>>

ClauseOfParsed(self, parsed, current) ==
    IF parsed.exc # "none" THEN <<"Invalid due date">>
    ELSE ClauseOf(DaysUntilDue(self, parsed.value, DateTime(FALSE, current)))

UrgencyClause(self, task, current) ==
    ClauseOfParsed(self, fromisoformat(ReplaceZ(task.due_date)), current)

\* The reasons joined, or the default text.
JoinReasons(reasons) ==
    IF reasons # <<>> THEN reasons ELSE <<"Standard priority">>

\* _generate_explanation: the clauses, without the figures formatted into them.
generate_explanation(self, dependency, task, current) ==
    JoinReasons(
        UrgencyClause(self, task, current)
        \o (IF task.importance >= 8 THEN <<"High importance">>
            ELSE IF task.importance >= 5 THEN <<"Medium importance">> ELSE <<>>)
        \o (IF task.estimated_hours <= 20 THEN <<"Quick task">>
            ELSE IF task.estimated_hours >= 100 THEN <<"Large task">> ELSE <<>>)
        \o (IF dependency > 0 THEN <<"Blocks other tasks">> ELSE <<>>))

\* Lines 234-247: the weighted sum of the factor scores, rounded, with the
\* explanation; an exception of the urgency computation propagates.
Weighted(self, task, current, u, importance, effort, dependency, weights) ==
    IF u.exc # "none" THEN [exc |-> u.exc]
    ELSE [exc |-> "none",
          score |-> Round2(u.value * weights.urgency
                           + importance * weights.importance
                           + effort * weights.effort
                           + dependency * weights.dependency),
          explanation |-> generate_explanation(self, dependency, task, current)]

\* Lines 218-247 of calculate_priority_score.
WeightedScore(self, task, task_idx, all_tasks, current) ==
    Weighted(self, task, current,
             calculate_urgency_score(self, task.due_date, current),
             task.importance * 100,
             calculate_effort_score(task.estimated_hours, self.strategy),
             calculate_dependency_score(task_idx, all_tasks),
             ScoringWeights(self.strategy))

\* A scorer that forgets the circular-dependency short-circuit of line 211.
calculate_priority_score_NoCycleCheck(self, task, task_idx, all_tasks, circular_deps, current) ==
    IF task.title = "" \/ task.estimated_hours <= 0
    THEN [exc |-> "none", score |-> 0, explanation |-> <<"Invalid task data">>]
    ELSE WeightedScore(self, task, task_idx, all_tasks, current)

\* calculate_priority_score: (score, explanation), the score in hundredths.
calculate_priority_score(self, task, task_idx, all_tasks, circular_deps, current) ==
    IF task_idx \in circular_deps
    THEN [exc |-> "none", score |-> 0, explanation |-> <<"Circular dependency detected">>]
    ELSE IF task.title = "" \/ task.estimated_hours <= 0
    THEN [exc |-> "none", score |-> 0, explanation |-> <<"Invalid task data">>]
    ELSE WeightedScore(self, task, task_idx, all_tasks, current)

(***************************************************************************)
(* schemas.TaskBase / TaskResponse                                         *)
(***************************************************************************)
\* The field constraints and the due_date validator of TaskBase, which the
\* TaskResponse constructor runs on the fields it is given.
TaskBaseValid(task) ==
    /\ Len(task.title) >= 1 /\ Len(task.title) <= 200
    /\ fromisoformat(ReplaceZ(task.due_date)).exc = "none"
    /\ task.estimated_hours > 0
    /\ task.importance >= 1 /\ task.importance <= 10

TaskResponse(idx, task, score, explanation) ==
    IF TaskBaseValid(task)
    THEN [exc |-> "none",
          value |-> [id |-> idx, title |-> task.title, due_date |-> task.due_date,
                     estimated_hours |-> task.estimated_hours,
                     importance |-> task.importance,
                     dependencies |-> task.dependencies,
                     priority_score |-> score, explanation |-> explanation]]
    ELSE [exc |-> "ValidationError"]

(***************************************************************************)
(* score_tasks and suggest_top_tasks                                       *)
(***************************************************************************)
\* The sort key of line 331: `x.priority_score or 0`.
SortKey(x) == x.priority_score

\* list.sort(reverse=True) is stable: x goes behind every element whose key
\* is not smaller than its own.
\* A sort that puts x in front of the elements with an equal key.
RECURSIVE InsertDescending_Unstable(_, _)
InsertDescending_Unstable(sorted, x) ==
    IF sorted = <<>> THEN <<x>>
    ELSE IF SortKey(Head(sorted)) > SortKey(x)
         THEN <<Head(sorted)>> \o InsertDescending_Unstable(Tail(sorted), x)
         ELSE <<x>> \o sorted

RECURSIVE InsertDescending(_, _)
InsertDescending(sorted, x) ==
    IF sorted = <<>> THEN <<x>>
    ELSE IF SortKey(Head(sorted)) >= SortKey(x)
         THEN <<Head(sorted)>> \o InsertDescending(Tail(sorted), x)
         ELSE <<x>> \o sorted

RECURSIVE SortDescending(_, _)
SortDescending(sorted, rest) ==
    IF rest = <<>> THEN sorted
    ELSE SortDescending(InsertDescending(sorted, Head(rest)), Tail(rest))

\* The loop of lines 313-328 from position idx on; the first exception ends it.
RECURSIVE ScoreEach(_, _, _, _, _, _)

\* Lines 318-328 for the task at idx, then the rest of the loop.
AppendResponse(self, ts, circular_deps, current, idx, scored_tasks, task_response) ==
    IF task_response.exc # "none" THEN [exc |-> task_response.exc]
    ELSE ScoreEach(self, ts, circular_deps, current, idx + 1,
                   Append(scored_tasks, task_response.value))

\* Lines 314-328 for the task at idx, scored p, then the rest of the loop.
ScoreOne(self, ts, circular_deps, current, idx, scored_tasks, p) ==
    IF p.exc # "none" THEN [exc |-> p.exc]
    ELSE AppendResponse(self, ts, circular_deps, current, idx, scored_tasks,
                        TaskResponse(idx, TaskAt(ts, idx), p.score, p.explanation))

ScoreEach(self, ts, circular_deps, current, idx, scored_tasks) ==
    IF idx >= Len(ts) THEN [exc |-> "none", value |-> scored_tasks]
    ELSE ScoreOne(self, ts, circular_deps, current, idx, scored_tasks,
                  calculate_priority_score(self, TaskAt(ts, idx), idx, ts,
                                           circular_deps, current))

\* Line 331 on the outcome of the loop.
SortScored(scored) ==
    IF scored.exc # "none" THEN scored
    ELSE [exc |-> "none", value |-> SortDescending(<<>>, scored.value)]

score_tasks(self, ts, current) ==
    SortScored(ScoreEach(self, ts, detect_circular_dependencies(ts), current, 0, <<>>))

\* A filter that lets a score of 0 through.
IsValidScore_NonNegative(t) == t.priority_score >= 0

\* The filter of line 342.
IsValidScore(t) == t.priority_score # 0 /\ t.priority_score > 0

\* The list comprehension of line 342.
RECURSIVE ValidTasks(_)
ValidTasks(scored_tasks) ==
    IF scored_tasks = <<>> THEN <<>>
    ELSE (IF IsValidScore(Head(scored_tasks)) THEN <<Head(scored_tasks)>> ELSE <<>>)
         \o ValidTasks(Tail(scored_tasks))

\* l[:count]
SliceTo(l, count) ==
    IF count >= 0 THEN SubSeq(l, 1, Min(count, Len(l)))
    ELSE SubSeq(l, 1, Max(Len(l) + count, 0))

\* Lines 342-344 on the outcome of score_tasks.
SuggestFrom(scored_tasks, count) ==
    IF scored_tasks.exc # "none" THEN scored_tasks
    ELSE [exc |-> "none", value |-> SliceTo(ValidTasks(scored_tasks.value), count)]

suggest_top_tasks(self, ts, count, current) ==
    SuggestFrom(score_tasks(self, ts, current), count)

(***************************************************************************)
(* FeedbackStore                                                           *)
(***************************************************************************)
Factors == {"urgency", "importance", "effort", "dependencies"}

\* A feedback_history entry; the title and the timestamp are never read.
FeedbackEntry(was_helpful, strategy_used) ==
    [was_helpful |-> was_helpful, strategy_used |-> strategy_used]

\* A clamp that forgets the upper end of the range.
Clamp_LowerOnly(x) == Max(-200, x)

\* Line 72: max(-0.2, min(0.2, x)), in thousandths.
Clamp(x) == Max(-200, Min(200, x))

\* An _adjust_weights whose high_impact branch moves urgency.
adjust_weights_WrongFactor(wa, strategy, was_helpful) ==
    LET adjustment == IF was_helpful THEN 20 ELSE -20
        moved ==
            CASE strategy = "deadline_driven" -> [wa EXCEPT !.urgency = @ + adjustment]
              [] strategy = "high_impact" -> [wa EXCEPT !.urgency = @ + adjustment]
              [] strategy = "fastest_wins" -> [wa EXCEPT !.effort = @ + adjustment]
              [] OTHER -> [f \in Factors |-> wa[f] + adjustment \div 4]
    IN  [f \in Factors |-> Clamp(moved[f])]

\* _adjust_weights: the new weight_adjustments map.
adjust_weights(wa, strategy, was_helpful) ==
    LET adjustment == IF was_helpful THEN 20 ELSE -20
        moved ==
            CASE strategy = "deadline_driven" -> [wa EXCEPT !.urgency = @ + adjustment]
              [] strategy = "high_impact" -> [wa EXCEPT !.importance = @ + adjustment]
              [] strategy = "fastest_wins" -> [wa EXCEPT !.effort = @ + adjustment]
              [] OTHER -> [f \in Factors |-> wa[f] + adjustment \div 4]
    IN  [f \in Factors |-> Clamp(moved[f])]

\* The base_weights table of get_personalized_weights, in thousandths.
BaseWeights(strategy) ==
    CASE strategy = "fastest_wins" ->
            [urgency |-> 250, importance |-> 200, effort |-> 400, dependencies |-> 150]
      [] strategy = "high_impact" ->
            [urgency |-> 200, importance |-> 500, effort |-> 150, dependencies |-> 150]
      [] strategy = "deadline_driven" ->
            [urgency |-> 500, importance |-> 250, effort |-> 100, dependencies |-> 150]
      [] OTHER ->
            [urgency |-> 350, importance |-> 300, effort |-> 200, dependencies |-> 150]

SumOver(w) == w.urgency + w.importance + w.effort + w.dependencies

\* A normalisation by the total of the base table instead of the adjusted one.
get_personalized_weights_BaseTotal(wa, base_strategy) ==
    LET weights == [f \in Factors |-> BaseWeights(base_strategy)[f] + wa[f]]
        total == SumOver(BaseWeights(base_strategy))
    IN  [f \in Factors |->
            [num |-> weights[f], den |-> IF total > 0 THEN total ELSE 1000]]

\* get_personalized_weights: each weight is the fraction num / den; den is
\* the total when the weights are normalised, else the unit of the table.
get_personalized_weights(wa, base_strategy) ==
    LET weights == [f \in Factors |-> BaseWeights(base_strategy)[f] + wa[f]]
        total == SumOver(weights)
    IN  [f \in Factors |->
            [num |-> weights[f], den |-> IF total > 0 THEN total ELSE 1000]]

(***************************************************************************)
(* Inputs                                                                  *)
(***************************************************************************)
Strategies == {"smart_balance", "fastest_wins", "high_impact", "deadline_driven"}
StrategyNames == Strategies \cup {"unknown"}

Instants == 0 .. (MaxDay * TicksPerDay + TicksPerDay - 1)

DueStrings ==
    [form : {"date"}, day : 0 .. MaxDay, tick : {0}]
    \cup [form : {"datetime", "datetime_z"}, day : 0 .. MaxDay, tick : 0 .. TicksPerDay - 1]
    \cup [form : {"invalid"}, day : {0}, tick : {0}]

Scorers == [strategy : StrategyNames, use_business_days : BOOLEAN]

StoreInit ==
    /\ feedback_history = EmptyBag
    /\ strategy_preferences = [s \in Strategies |-> 0]
    /\ weight_adjustments = [f \in Factors |-> 0]

StoreVars == <<feedback_history, strategy_preferences, weight_adjustments>>

(***************************************************************************)
(* Specification of calculate_urgency_score                                *)
(***************************************************************************)
InitUrgency ==
    /\ scorer \in [strategy : {"smart_balance"}, use_business_days : BOOLEAN]
    /\ now \in Instants
    /\ due_date_str \in DueStrings
    /\ tasks = <<>>
    /\ StoreInit
    /\ calls = <<>>
    /\ ret = NoCall

CalculateUrgencyScore ==
    /\ ret.op = "none"
    /\ ret' = [op |-> "calculate_urgency_score"]
                @@ calculate_urgency_score(scorer, due_date_str, now)
    /\ UNCHANGED <<scorer, now, tasks, due_date_str, calls, StoreVars>>

NextUrgency == CalculateUrgencyScore

SpecUrgency == InitUrgency /\ [][NextUrgency]_vars

\* C6: in business-day mode, for every instant now, a due date that is
\* today's calendar date yields an urgency in the closed range [90, 105].
C6_DueTodayInRange ==
    ( /\ ret.op = "calculate_urgency_score"
      /\ scorer.use_business_days
      /\ due_date_str.form = "date"
      /\ due_date_str.day = DayOf(now) )
    => (ret.exc = "none" /\ ret.value >= 900 /\ ret.value <= 1050)

\* C7: in business-day mode, for every instant now, a parsable due date
\* strictly earlier than now yields an urgency strictly greater than 100,
\* also when only weekend days and holidays lie in between.
C7_PastDueAbove100 ==
    ( /\ ret.op = "calculate_urgency_score"
      /\ scorer.use_business_days
      /\ due_date_str.form \in {"date", "datetime"}
      /\ fromisoformat(due_date_str).value.t < now )
    => (ret.exc = "none" /\ ret.value > 1000)

\* C19: calculate_urgency_score is monotone in the day delta: for
\* non-negative deltas d1 < d2 with the same weekend bonus the urgency of d2
\* is at most the urgency of d1, across the bucket boundaries 1, 3, 7, 14
\* and 30 as well.
C19_UrgencyMonotoneInDelta ==
    ( /\ ret.op = "calculate_urgency_score"
      /\ ret.exc = "none"
      /\ fromisoformat(ReplaceZ(due_date_str)).exc = "none" )
    => LET d2 == DaysUntilDue(scorer, fromisoformat(ReplaceZ(due_date_str)).value,
                              DateTime(FALSE, now))
       IN  \A d1 \in 0 .. d2.value - 1 :
              UrgencyBucket(d1, d2.weekend_boost) >= ret.value

(***************************************************************************)
(* Specification of detect_circular_dependencies                           *)
(***************************************************************************)
\* Sequences of pairwise different elements of S, of length at most two.
DistinctLists(S) ==
    {<<>>} \cup {<<a>> : a \in S}
           \cup {l \in {<<a, b>> : a \in S, b \in S} : l[1] # l[2]}

\* A task of the dependency-graph batches: only its dependencies vary.
PlainTask(deps) ==
    [title |-> "Task", due_date |-> [form |-> "date", day |-> 0, tick |-> 0],
     estimated_hours |-> 20, importance |-> 5, dependencies |-> deps]

\* Batches of n tasks; a dependency is a position 0 .. n-1, the
\* out-of-range index n or, alone in its list, the negative index -1.
GraphBatch(n, d) == [i \in 1 .. n |-> PlainTask(d[i])]

InitCycles ==
    /\ scorer = [strategy |-> "smart_balance", use_business_days |-> TRUE]
    /\ now = 0
    /\ due_date_str = [form |-> "invalid", day |-> 0, tick |-> 0]
    /\ \E n \in 1 .. MaxNodes :
          \E d \in [1 .. n -> DistinctLists(0 .. n) \cup {<<-1>>}] :
             tasks = GraphBatch(n, d)
    /\ StoreInit
    /\ calls = <<>>
    /\ ret = NoCall

DetectCircularDependencies ==
    /\ ret.op = "none"
    /\ ret' = [op |-> "detect_circular_dependencies", exc |-> "none",
               value |-> detect_circular_dependencies(tasks)]
    /\ UNCHANGED <<scorer, now, tasks, due_date_str, calls, StoreVars>>

NextCycles == DetectCircularDependencies

SpecCycles == InitCycles /\ [][NextCycles]_vars

\* The dependency relation restricted to the positions of the batch.
DepEdge(ts, i, j) ==
    /\ j \in 0 .. Len(ts) - 1
    /\ \E k \in 1 .. Len(TaskAt(ts, i).dependencies) : TaskAt(ts, i).dependencies[k] = j

\* Positions reachable from i in one or more dependency steps.
RECURSIVE ReachFrom(_, _, _)
ReachFrom(ts, frontier, seen) ==
    LET next == {j \in 0 .. Len(ts) - 1 : \E i \in frontier : DepEdge(ts, i, j)} \ seen
    IN  IF next = {} THEN seen ELSE ReachFrom(ts, next, seen \cup next)
Reachable(ts, i) == ReachFrom(ts, {i}, {})

\* i lies on a dependency cycle.
OnCycle(ts, i) == i \in Reachable(ts, i)

\* C2: every task on a dependency cycle of the batch is in the set returned
\* by detect_circular_dependencies, whatever the order of the dependency lists.
C2_CycleMembersFlagged ==
    ret.op = "detect_circular_dependencies"
    => \A i \in 0 .. Len(tasks) - 1 : OnCycle(tasks, i) => i \in ret.value

\* Some dependency cycle can be reached from i: i lies on one or has a
\* dependency path into one.
ReachesCycle(ts, i) == \E j \in Reachable(ts, i) \cup {i} : OnCycle(ts, j)

\* C18: every index returned by detect_circular_dependencies is a position
\* 0 <= i < len(tasks) whose task lies on a dependency cycle or has a
\* dependency path into one; a task from which no cycle can be reached is
\* never flagged.
C18_FlaggedReachCycle ==
    ret.op = "detect_circular_dependencies"
    => LET reaching == {i \in 0 .. Len(tasks) - 1 : ReachesCycle(tasks, i)}
       IN  /\ ret.value \subseteq 0 .. Len(tasks) - 1
           /\ \A i \in ret.value : i \in reaching
           /\ \A i \in (0 .. Len(tasks) - 1) \ reaching : i \notin ret.value

\* A flagged task off every cycle (it leads into one), next to a task that
\* is not flagged and lists an index outside the batch.
C18_Witness ==
    /\ ret.op = "detect_circular_dependencies"
    /\ \E i \in ret.value : ~OnCycle(tasks, i)
    /\ \E i \in 0 .. Len(tasks) - 1 :
          /\ i \notin ret.value
          /\ \E k \in 1 .. Len(TaskAt(tasks, i).dependencies) :
                TaskAt(tasks, i).dependencies[k] \notin 0 .. Len(tasks) - 1

\* The permutations of the positions of the batch.
PositionPermutations(ts) ==
    LET P == 0 .. Len(ts) - 1
    IN  {pi \in [P -> P] : \A i, j \in P : pi[i] = pi[j] => i = j}

\* The batch with the task of position i moved to position pi[i] and every
\* dependency on a position renamed the same way.
Permuted(ts, pi) ==
    [k \in 1 .. Len(ts) |->
        LET i == CHOOSE x \in DOMAIN pi : pi[x] = k - 1
            deps == TaskAt(ts, i).dependencies
        IN  [TaskAt(ts, i) EXCEPT
               !.dependencies =
                   [m \in 1 .. Len(deps) |->
                       IF deps[m] \in DOMAIN pi THEN pi[deps[m]] ELSE deps[m]]]]

\* C15: the set returned by detect_circular_dependencies does not depend on
\* the order in which the DFS starts: for every batch and every permutation
\* of the positions (dependencies renamed accordingly), the set flagged for
\* the permuted batch is the image of the set flagged for the original one.
C15_FlaggedSetOrderIndependent ==
    ret.op = "detect_circular_dependencies"
    => \A pi \in PositionPermutations(tasks) :
          detect_circular_dependencies(Permuted(tasks, pi))
            = {pi[i] : i \in ret.value}

(***************************************************************************)
(* Specification of score_tasks and suggest_top_tasks                      *)
(***************************************************************************)
Task(title, due_date, estimated_hours, importance) ==
    [title |-> title, due_date |-> due_date, estimated_hours |-> estimated_hours,
     importance |-> importance, dependencies |-> <<>>]

\* The clock of the scoring runs: Wednesday 2025-01-08, in the morning.
ScoringNow == 7 * TicksPerDay + 1

\* Tasks the schema admits and score_tasks scores: due today, due next week,
\* overdue, far off and unimportant.
ValidPool ==
    { Task("Write report", [form |-> "date", day |-> 7, tick |-> 0], 20, 9),
      Task("Plan sprint", [form |-> "date", day |-> 14, tick |-> 0], 50, 5),
      Task("Fix login", [form |-> "datetime", day |-> 5, tick |-> 1], 30, 7),
      Task("Archive", [form |-> "date", day |-> 20, tick |-> 0], 120, 1) }

\* A due date with 'Z', and the degenerate tasks: an empty title, no hours,
\* an unparsable due date.
DegeneratePool ==
    { Task("Sync call", [form |-> "datetime_z", day |-> 8, tick |-> 1], 10, 6),
      Task("", [form |-> "date", day |-> 8, tick |-> 0], 10, 6),
      Task("No hours", [form |-> "date", day |-> 8, tick |-> 0], 0, 6),
      Task("Bad date", [form |-> "invalid", day |-> 0, tick |-> 0], 20, 5) }

\* Dependency lists for a batch of n tasks, as a function of the position:
\* none, a chain, a star, a ring, a self-dependency, out-of-range indices,
\* a 2-cycle, and two cycles sharing tasks.
DependencyPatterns(n) ==
    { [i \in 0 .. n - 1 |-> <<>>],
      [i \in 0 .. n - 1 |-> IF i > 0 THEN <<i - 1>> ELSE <<>>],
      [i \in 0 .. n - 1 |-> IF i > 0 THEN <<0>> ELSE <<>>],
      [i \in 0 .. n - 1 |-> <<(i + 1) % n>>],
      [i \in 0 .. n - 1 |-> IF i = 0 THEN <<0>> ELSE <<>>],
      [i \in 0 .. n - 1 |-> IF i = n - 1 THEN <<n, -1>> ELSE <<>>],
      [i \in 0 .. n - 1 |-> IF i < 2 /\ n >= 2 THEN <<1 - i>> ELSE <<>>],
      [i \in 0 .. n - 1 |-> IF n < 3 \/ i > 2 THEN <<>>
                            ELSE IF i = 0 THEN <<1, 2>>
                            ELSE IF i = 1 THEN <<0>> ELSE <<1>>] }

\* A batch: valid tasks, the last one possibly degenerate, with the
\* dependency lists of pattern d.
ScoringBatch(n, t, last, d) ==
    [i \in 1 .. n |-> [(IF i = n THEN last ELSE t[i]) EXCEPT !.dependencies = d[i - 1]]]

Counts == {0, 1, 3}

Init ==
    /\ scorer \in Scorers
    /\ now = ScoringNow
    /\ \E n \in 1 .. MaxTasks :
          \E t \in [1 .. n - 1 -> ValidPool], last \in ValidPool \cup DegeneratePool,
             d \in DependencyPatterns(n) :
                tasks = ScoringBatch(n, t, last, d)
    /\ due_date_str = [form |-> "invalid", day |-> 0, tick |-> 0]
    /\ StoreInit
    /\ calls = <<>>
    /\ ret = NoCall

ScoreTasks ==
    /\ ret.op = "none"
    /\ ret' = [op |-> "score_tasks"] @@ score_tasks(scorer, tasks, now)
    /\ UNCHANGED <<scorer, now, tasks, due_date_str, calls, StoreVars>>

SuggestTopTasks(count) ==
    /\ ret.op = "none"
    /\ ret' = [op |-> "suggest_top_tasks", count |-> count]
                @@ suggest_top_tasks(scorer, tasks, count, now)
    /\ UNCHANGED <<scorer, now, tasks, due_date_str, calls, StoreVars>>

Next ==
    \/ ScoreTasks
    \/ \E count \in Counts : SuggestTopTasks(count)

Spec == Init /\ [][Next]_vars

(***************************************************************************)
(* Specification of the feedback store                                     *)
(***************************************************************************)
InitFeedback ==
    /\ scorer = [strategy |-> "smart_balance", use_business_days |-> TRUE]
    /\ now = 0
    /\ tasks = <<>>
    /\ due_date_str = [form |-> "invalid", day |-> 0, tick |-> 0]
    /\ StoreInit
    /\ calls = <<>>
    /\ ret = NoCall

\* add_feedback: the entry is appended before the counter of an
\* unrecognised strategy name raises KeyError.
AddFeedback(was_helpful, strategy_used) ==
    /\ BagCardinality(feedback_history) < MaxFeedback
    /\ feedback_history' =
         feedback_history (+) SetToBag({FeedbackEntry(was_helpful, strategy_used)})
    /\ IF strategy_used \in DOMAIN strategy_preferences
       THEN /\ strategy_preferences' =
                 [strategy_preferences EXCEPT
                    ![strategy_used] = IF was_helpful THEN @ + 1 ELSE @ - 1]
            /\ weight_adjustments' =
                 adjust_weights(weight_adjustments, strategy_used, was_helpful)
            /\ ret' = [op |-> "add_feedback", exc |-> "none"]
       ELSE /\ UNCHANGED <<strategy_preferences, weight_adjustments>>
            /\ ret' = [op |-> "add_feedback", exc |-> "KeyError"]
    /\ UNCHANGED <<scorer, now, tasks, due_date_str, calls>>

GetPersonalizedWeights(base_strategy) ==
    /\ ret' = [op |-> "get_personalized_weights", exc |-> "none",
               base_strategy |-> base_strategy,
               value |-> get_personalized_weights(weight_adjustments, base_strategy)]
    /\ UNCHANGED <<scorer, now, tasks, due_date_str, calls, StoreVars>>

NextFeedback ==
    \/ \E was_helpful \in BOOLEAN, strategy_used \in Strategies :
          AddFeedback(was_helpful, strategy_used)
    \/ \E base_strategy \in StrategyNames : GetPersonalizedWeights(base_strategy)

SpecFeedback == InitFeedback /\ [][NextFeedback]_vars

(***************************************************************************)
(* Properties of score_tasks and suggest_top_tasks (under Spec)            *)
(***************************************************************************)
Returned(op) == ret.op = op /\ ret.exc = "none"

Positions(l) == 1 .. Len(l)

\* C1: when score_tasks returns, the result holds exactly one scored task
\* per input position (carried as id, with the fields of that task), the
\* scores never increase along the list, and tasks of equal score keep
\* their input order.
C1_OnePerTaskSortedStable ==
    Returned("score_tasks") =>
        /\ Len(ret.value) = Len(tasks)
        /\ {ret.value[k].id : k \in Positions(ret.value)} = 0 .. Len(tasks) - 1
        /\ \A k \in Positions(ret.value) :
              LET t == TaskAt(tasks, ret.value[k].id)
              IN  /\ ret.value[k].title = t.title
                  /\ ret.value[k].due_date = t.due_date
                  /\ ret.value[k].estimated_hours = t.estimated_hours
                  /\ ret.value[k].importance = t.importance
                  /\ ret.value[k].dependencies = t.dependencies
        /\ \A j, k \in Positions(ret.value) :
              j < k =>
                /\ ret.value[j].priority_score >= ret.value[k].priority_score
                /\ ret.value[j].priority_score = ret.value[k].priority_score
                     => ret.value[j].id < ret.value[k].id

\* A returned batch of three or more tasks with a tie, with different
\* scores, and whose best task was not first in the input.
C1_Witness ==
    /\ Returned("score_tasks")
    /\ Len(tasks) >= 3
    /\ ret.value[1].id # 0
    /\ \E j, k \in Positions(ret.value) :
          j < k /\ ret.value[j].priority_score = ret.value[k].priority_score
    /\ \E j, k \in Positions(ret.value) :
          ret.value[j].priority_score > ret.value[k].priority_score

\* C3: score_tasks never raises: every batch of tasks of the Task shape, due
\* dates carrying 'Z' or an offset included, gets a score and an explanation
\* for each of its tasks.  (Stated for the batches the schema admits; the
\* degenerate tasks of the claim raise as well, in the TaskResponse
\* constructor.)
C3_ScoreTasksNeverRaises ==
    (ret.op = "score_tasks" /\ \A i \in Positions(tasks) : TaskBaseValid(tasks[i])) =>
        /\ ret.exc = "none"
        /\ Len(ret.value) = Len(tasks)

\* The number of tasks of the batch that score_tasks scores above 0.
PositiveCount(scored) ==
    Cardinality({k \in Positions(scored) : scored[k].priority_score > 0})

\* C4: for a count >= 0, suggest_top_tasks returns the first min(count, k)
\* elements of the score_tasks result, k being the number of tasks with a
\* strictly positive score; none of them has a score <= 0 and they are at
\* most count.
C4_SuggestTopPositive ==
    (Returned("suggest_top_tasks") /\ ret.count >= 0) =>
        LET scored == score_tasks(scorer, tasks, now).value
            k == PositiveCount(scored)
        IN  /\ Len(ret.value) = Min(ret.count, k)
            /\ Len(ret.value) <= ret.count
            /\ \A j \in Positions(ret.value) :
                  /\ ret.value[j].priority_score > 0
                  /\ ret.value[j] = scored[j]

\* A call that cuts the list (more positive tasks than asked for) on a batch
\* that also holds a task scored 0.
C4_Witness ==
    /\ Returned("suggest_top_tasks")
    /\ ret.count >= 1
    /\ Len(ret.value) = ret.count
    /\ LET scored == score_tasks(scorer, tasks, now).value
       IN  /\ PositiveCount(scored) > ret.count
           /\ PositiveCount(scored) < Len(scored)

\* The weighted sum of the factor scores of task idx under the base weight
\* table of get_personalized_weights, rounded to 2 decimals.
BaseTableScore(self, ts, idx, current) ==
    LET task == TaskAt(ts, idx)
        w == BaseWeights(self.strategy)
    IN  Round2((calculate_urgency_score(self, task.due_date, current).value * w.urgency
                + task.importance * 100 * w.importance
                + calculate_effort_score(task.estimated_hours, self.strategy) * w.effort
                + calculate_dependency_score(idx, ts) * w.dependencies) \div 10)

\* C5: for each of the four strategies, the priority score of a valid,
\* non-circular task is urgency*w_u + importance*w_i + effort*w_e +
\* dependency*w_d rounded to 2 decimals, with the weights of the base table
\* get_personalized_weights starts from.
C5_ScoreUsesBaseWeightTable ==
    (Returned("score_tasks") /\ scorer.strategy \in Strategies) =>
        LET circular == detect_circular_dependencies(tasks)
        IN  \A k \in Positions(ret.value) :
                ret.value[k].id \notin circular
                => ret.value[k].priority_score
                     = BaseTableScore(scorer, tasks, ret.value[k].id, now)

\* C8: when score_tasks returns on a batch of tasks with a title and
\* positive hours, a task is scored 0 exactly if its position is in the set
\* of detect_circular_dependencies, every other task is scored above 0, and
\* the tasks scored 0 come last.
C8_ZeroIffCircular ==
    ( /\ Returned("score_tasks")
      /\ \A i \in Positions(tasks) : tasks[i].title # "" /\ tasks[i].estimated_hours > 0 )
    => /\ LET circular == detect_circular_dependencies(tasks)
          IN  \A k \in Positions(ret.value) :
                /\ ret.value[k].priority_score = 0 <=> ret.value[k].id \in circular
                /\ ret.value[k].id \notin circular => ret.value[k].priority_score > 0
       /\ \A j, k \in Positions(ret.value) :
            (ret.value[j].priority_score = 0 /\ ret.value[k].priority_score # 0) => k < j

\* A returned batch with a flagged task in front of an unflagged one in the
\* input, the flagged one scored 0 and moved behind.
C8_Witness ==
    /\ Returned("score_tasks")
    /\ 0 \in detect_circular_dependencies(tasks)
    /\ \E k \in Positions(ret.value) :
          /\ ret.value[k].id \notin detect_circular_dependencies(tasks)
          /\ ret.value[k].priority_score > 0
    /\ ret.value[Len(ret.value)].priority_score = 0

(***************************************************************************)
(* Properties of the feedback store (under SpecFeedback)                   *)
(***************************************************************************)
\* C9: after any sequence of add_feedback calls each of the four weight
\* adjustments lies in [-0.2, +0.2].
C9_AdjustmentsClamped ==
    \A f \in Factors : weight_adjustments[f] >= -200 /\ weight_adjustments[f] <= 200

\* Eleven helpful deadline_driven submissions: the eleventh was cut off.
C9_Witness ==
    /\ strategy_preferences["deadline_driven"] >= 11
    /\ weight_adjustments["urgency"] = 200

\* The sum of four fractions of equal denominator is 1.
SumsToOne(w) ==
    /\ w.urgency.den = w.importance.den
    /\ w.urgency.den = w.effort.den
    /\ w.urgency.den = w.dependencies.den
    /\ w.urgency.num + w.importance.num + w.effort.num + w.dependencies.num
         = w.urgency.den

\* C10: in every reachable store state and for every strategy name,
\* recognised or not, the four personalized weights sum to 1.0, and the
\* total before normalisation is above 0, so that normalisation is never
\* skipped.
C10_PersonalizedWeightsSumToOne ==
    ret.op = "get_personalized_weights" =>
        /\ SumsToOne(ret.value)
        /\ SumOver(BaseWeights(ret.base_strategy)) + SumOver(weight_adjustments) > 0

\* Personalized weights of an unrecognised name after feedback has moved the
\* total away from 1.0.
C10_Witness ==
    /\ ret.op = "get_personalized_weights"
    /\ ret.base_strategy = "unknown"
    /\ SumOver(weight_adjustments) < 0
    /\ ret.value.urgency.den < 1000

(***************************************************************************)
(* Specification of concurrent add_feedback calls on feedback_store        *)
(*                                                                         *)
(* Each caller runs add_feedback on the one process-wide store.  The code  *)
(* takes no lock, so callers interleave between the loads and the stores   *)
(* of `d[k] += v` (a load, an add and a store) and of the clamp line (a    *)
(* load, two calls and a store).  A call in flight is a record             *)
(* [was_helpful, strategy_used, pc, todo, tmp]: todo is the rest of the    *)
(* factors of the loop being run, tmp the value loaded last.               *)
(***************************************************************************)
\* Iteration order of the weight_adjustments dict (lines 24-29).
FactorOrder == <<"urgency", "importance", "effort", "dependencies">>

\* The factors _adjust_weights adds to (lines 59-68).
AdjustedFactors(strategy) ==
    CASE strategy = "deadline_driven" -> <<"urgency">>
      [] strategy = "high_impact" -> <<"importance">>
      [] strategy = "fastest_wins" -> <<"effort">>
      [] OTHER -> FactorOrder

\* The amount added to each of them (lines 56, 60-68), in thousandths.
AdjustmentOf(strategy, was_helpful) ==
    LET adjustment == IF was_helpful THEN 20 ELSE -20
    IN  IF strategy \in {"deadline_driven", "high_impact", "fastest_wins"}
        THEN adjustment ELSE adjustment \div 4

Callers == 1 .. MaxCallers

InitConcurrent ==
    /\ scorer = [strategy |-> "smart_balance", use_business_days |-> TRUE]
    /\ now = 0
    /\ tasks = <<>>
    /\ due_date_str = [form |-> "invalid", day |-> 0, tick |-> 0]
    /\ StoreInit
    /\ calls \in [Callers -> [was_helpful : BOOLEAN, strategy_used : Strategies,
                              pc : {"append"}, todo : {<<>>}, tmp : {0}]]
    /\ ret = NoCall

\* Line 39: feedback_history.append(feedback).
AppendFeedback(c) ==
    /\ calls[c].pc = "append"
    /\ feedback_history' =
         feedback_history
           (+) SetToBag({FeedbackEntry(calls[c].was_helpful, calls[c].strategy_used)})
    /\ calls' = [calls EXCEPT ![c].pc = "load_preference"]
    /\ UNCHANGED <<scorer, now, tasks, due_date_str, strategy_preferences,
                   weight_adjustments, ret>>

\* Lines 43, 45: the load of strategy_preferences[strategy_used].
LoadPreference(c) ==
    /\ calls[c].pc = "load_preference"
    /\ IF calls[c].strategy_used \in DOMAIN strategy_preferences
       THEN calls' = [calls EXCEPT ![c].pc = "store_preference",
                                   ![c].tmp = strategy_preferences[calls[c].strategy_used]]
       ELSE calls' = [calls EXCEPT ![c].pc = "KeyError"]
    /\ UNCHANGED <<scorer, now, tasks, due_date_str, StoreVars, ret>>

\* Lines 43, 45: the store of the counter; line 48 enters _adjust_weights.
StorePreference(c) ==
    /\ calls[c].pc = "store_preference"
    /\ strategy_preferences' =
         [strategy_preferences EXCEPT
            ![calls[c].strategy_used] =
                IF calls[c].was_helpful THEN calls[c].tmp + 1 ELSE calls[c].tmp - 1]
    /\ calls' = [calls EXCEPT ![c].pc = "load_adjustment",
                              ![c].todo = AdjustedFactors(calls[c].strategy_used)]
    /\ UNCHANGED <<scorer, now, tasks, due_date_str, feedback_history,
                   weight_adjustments, ret>>

\* Lines 60-68: the load of weight_adjustments[factor].
LoadAdjustment(c) ==
    /\ calls[c].pc = "load_adjustment"
    /\ calls' = [calls EXCEPT ![c].pc = "store_adjustment",
                              ![c].tmp = weight_adjustments[Head(calls[c].todo)]]
    /\ UNCHANGED <<scorer, now, tasks, due_date_str, StoreVars, ret>>

\* Lines 60-68: the store of weight_adjustments[factor]; after the last one
\* the clamp loop of line 71 starts.
StoreAdjustment(c) ==
    /\ calls[c].pc = "store_adjustment"
    /\ weight_adjustments' =
         [weight_adjustments EXCEPT
            ![Head(calls[c].todo)] =
                calls[c].tmp + AdjustmentOf(calls[c].strategy_used, calls[c].was_helpful)]
    /\ calls' = IF Tail(calls[c].todo) = <<>>
                THEN [calls EXCEPT ![c].pc = "load_clamp", ![c].todo = FactorOrder]
                ELSE [calls EXCEPT ![c].pc = "load_adjustment", ![c].todo = Tail(@)]
    /\ UNCHANGED <<scorer, now, tasks, due_date_str, feedback_history,
                   strategy_preferences, ret>>

\* Line 72: the load of weight_adjustments[factor] handed to min and max.
LoadClamp(c) ==
    /\ calls[c].pc = "load_clamp"
    /\ calls' = [calls EXCEPT ![c].pc = "store_clamp",
                              ![c].tmp = weight_adjustments[Head(calls[c].todo)]]
    /\ UNCHANGED <<scorer, now, tasks, due_date_str, StoreVars, ret>>

\* Line 72: the store of the clamped value; after the last factor the call
\* returns.
StoreClamp(c) ==
    /\ calls[c].pc = "store_clamp"
    /\ weight_adjustments' =
         [weight_adjustments EXCEPT ![Head(calls[c].todo)] = Clamp(calls[c].tmp)]
    /\ calls' = IF Tail(calls[c].todo) = <<>>
                THEN [calls EXCEPT ![c].pc = "done", ![c].todo = <<>>]
                ELSE [calls EXCEPT ![c].pc = "load_clamp", ![c].todo = Tail(@)]
    /\ UNCHANGED <<scorer, now, tasks, due_date_str, feedback_history,
                   strategy_preferences, ret>>

NextConcurrent ==
    \E c \in Callers :
        \/ AppendFeedback(c)
        \/ LoadPreference(c)
        \/ StorePreference(c)
        \/ LoadAdjustment(c)
        \/ StoreAdjustment(c)
        \/ LoadClamp(c)
        \/ StoreClamp(c)

SpecConcurrent == InitConcurrent /\ [][NextConcurrent]_vars

\* The store after one whole add_feedback call run on its own from `store`
\* = [history, preferences, adjustments].
RunAlone(store, call) ==
    IF call.strategy_used \in DOMAIN store.preferences
    THEN [history |-> store.history + 1,
          preferences |-> [store.preferences EXCEPT
                             ![call.strategy_used] =
                                 IF call.was_helpful THEN @ + 1 ELSE @ - 1],
          adjustments |-> adjust_weights(store.adjustments, call.strategy_used,
                                         call.was_helpful)]
    ELSE [store EXCEPT !.history = @ + 1]

\* The stores the calls of the callers in S can leave when run one after
\* another, in every order.
RECURSIVE SequentialOutcomes(_, _)
SequentialOutcomes(S, store) ==
    IF S = {} THEN {store}
    ELSE UNION {SequentialOutcomes(S \ {c}, RunAlone(store, calls[c])) : c \in S}

AllReturned == \A c \in Callers : calls[c].pc \in {"done", "KeyError"}

\* C11: when all concurrent add_feedback calls have returned, the preference
\* counters, the weight adjustments and the length of the feedback log are
\* those of some execution of the same calls one after another: no update
\* is lost.
C11_NoLostUpdate ==
    (DOMAIN calls = Callers /\ AllReturned)
    => [history |-> BagCardinality(feedback_history),
        preferences |-> strategy_preferences,
        adjustments |-> weight_adjustments]
         \in SequentialOutcomes(Callers,
                                [history |-> 0,
                                 preferences |-> [s \in Strategies |-> 0],
                                 adjustments |-> [f \in Factors |-> 0]])

(***************************************************************************)
(* Properties of single add_feedback calls (under SpecFeedback)            *)
(***************************************************************************)
FocusedStrategies == {"deadline_driven", "high_impact", "fastest_wins"}

\* The step is an add_feedback call with these arguments: it appends their
\* entry to the log (line 39).
IsAddFeedback(was_helpful, strategy_used) ==
    feedback_history' =
        feedback_history (+) SetToBag({FeedbackEntry(was_helpful, strategy_used)})

\* C12: one add_feedback call for a focused strategy changes only that
\* strategy's factor (deadline_driven: urgency, high_impact: importance,
\* fastest_wins: effort), by +0.02 when helpful and -0.02 when not, then
\* clamped to [-0.2, 0.2], and leaves the three other adjustments as they
\* were; from the initial store one helpful deadline_driven feedback makes
\* the urgency adjustment exactly 0.02.
C12_FocusedFeedbackFrame ==
    [][ \A was_helpful \in BOOLEAN, strategy_used \in FocusedStrategies :
          IsAddFeedback(was_helpful, strategy_used)
          => LET focus == Head(AdjustedFactors(strategy_used))
                 delta == IF was_helpful THEN 20 ELSE -20
             IN  /\ focus = CASE strategy_used = "deadline_driven" -> "urgency"
                              [] strategy_used = "high_impact" -> "importance"
                              [] strategy_used = "fastest_wins" -> "effort"
                 /\ weight_adjustments'[focus] =
                        Max(-200, Min(200, weight_adjustments[focus] + delta))
                 /\ \A f \in Factors \ {focus} :
                        weight_adjustments'[f] = weight_adjustments[f]
                 /\ ( /\ weight_adjustments = [f \in Factors |-> 0]
                      /\ was_helpful
                      /\ strategy_used = "deadline_driven" )
                    => weight_adjustments'.urgency = 20 ]_vars

\* One helpful deadline_driven feedback on the initial store.
C12_Witness ==
    /\ ret.op = "add_feedback"
    /\ feedback_history = SetToBag({FeedbackEntry(TRUE, "deadline_driven")})
    /\ weight_adjustments =
         [urgency |-> 20, importance |-> 0, effort |-> 0, dependencies |-> 0]

(***************************************************************************)
(* Specification of add_feedback with any strategy name                    *)
(***************************************************************************)
\* add_feedback takes strategy_used as a plain str: the four names of the
\* counters or any other one.
AddAnyFeedback(was_helpful, strategy_used) ==
    /\ BagCardinality(feedback_history) < MaxAnyFeedback
    /\ AddFeedback(was_helpful, strategy_used)

NextAnyFeedback ==
    \E was_helpful \in BOOLEAN, strategy_used \in StrategyNames :
        AddAnyFeedback(was_helpful, strategy_used)

SpecAnyFeedback == InitFeedback /\ [][NextAnyFeedback]_vars

\* C13: add_feedback with a name other than the three focused strategies,
\* smart_balance or an unrecognised one, completes normally and adds +0.005
\* (helpful) or -0.005 (not helpful) to each of the four adjustments, each
\* then clamped to [-0.2, 0.2].
C13_OtherNamesSpreadAdjustment ==
    [][ \A was_helpful \in BOOLEAN, strategy_used \in StrategyNames \ FocusedStrategies :
          IsAddFeedback(was_helpful, strategy_used)
          => /\ ret'.exc = "none"
             /\ \A f \in Factors :
                   weight_adjustments'[f] =
                       Clamp(weight_adjustments[f] + (IF was_helpful THEN 5 ELSE -5)) ]_vars

\* Helpful minus not-helpful entries of the feedback log.
RECURSIVE NetHelpful(_)
NetHelpful(history) ==
    IF history = EmptyBag THEN 0
    ELSE LET e == CHOOSE x \in BagToSet(history) : TRUE
         IN  (IF e.was_helpful THEN 1 ELSE -1)
             + NetHelpful(history (-) SetToBag({e}))

\* C17: after any sequence of add_feedback calls, failing ones included, the
\* four preference counters add up to the number of helpful entries of
\* feedback_history minus the number of not-helpful ones: a call that fails
\* leaves the log, the counters and the adjustments as they were.
C17_CountersMatchLog ==
    strategy_preferences["smart_balance"] + strategy_preferences["fastest_wins"]
      + strategy_preferences["high_impact"] + strategy_preferences["deadline_driven"]
    = NetHelpful(feedback_history)

\* C16 (under SpecFeedback): in every reachable store state and for every
\* strategy, each weight returned by get_personalized_weights is
\* non-negative and at most 1.
C16_PersonalizedWeightsNonNegative ==
    ret.op = "get_personalized_weights"
    => \A f \in Factors :
          /\ ret.value[f].den > 0
          /\ ret.value[f].num >= 0
          /\ ret.value[f].num <= ret.value[f].den

(***************************************************************************)
(* Specification of calculate_dependency_score                             *)
(***************************************************************************)
\* Dependency lists of the task at position i: none, task 0, itself, both.
DependencyKinds == {"none", "first", "self", "both"}
DependencyChoice(i, kind) ==
    CASE kind = "none" -> <<>>
      [] kind = "first" -> <<0>>
      [] kind = "self" -> <<i>>
      [] kind = "both" -> IF i = 0 THEN <<0>> ELSE <<i, 0>>

InitDependency ==
    /\ scorer = [strategy |-> "smart_balance", use_business_days |-> TRUE]
    /\ now = 0
    /\ due_date_str = [form |-> "invalid", day |-> 0, tick |-> 0]
    /\ \E n \in 1 .. MaxDependents + 1 :
          \E kind \in [1 .. n -> DependencyKinds] :
             tasks = [i \in 1 .. n |-> PlainTask(DependencyChoice(i - 1, kind[i]))]
    /\ StoreInit
    /\ calls = <<>>
    /\ ret = NoCall

CalculateDependencyScore(task_idx) ==
    /\ ret.op = "none"
    /\ ret' = [op |-> "calculate_dependency_score", exc |-> "none",
               task_idx |-> task_idx,
               value |-> calculate_dependency_score(task_idx, tasks)]
    /\ UNCHANGED <<scorer, now, tasks, due_date_str, calls, StoreVars>>

NextDependency ==
    \E task_idx \in 0 .. Len(tasks) - 1 : CalculateDependencyScore(task_idx)

SpecDependency == InitDependency /\ [][NextDependency]_vars

\* C14: calculate_dependency_score(i, tasks) is min(20 * c, 100), c being the
\* number of other tasks (position different from i) whose dependency list
\* contains i: 0 when none does, 100 (not 120) when six others do, and a
\* task that lists itself does not count as blocked by itself.
C14_DependencyScoreCountsOthers ==
    ret.op = "calculate_dependency_score"
    => LET c == Cardinality({j \in 0 .. Len(tasks) - 1 :
                                /\ j # ret.task_idx
                                /\ InList(ret.task_idx, TaskAt(tasks, j).dependencies)})
       IN  /\ ret.value = Min(200 * c, 1000)
           /\ c = 0 => ret.value = 0
           /\ c = 6 => ret.value = 1000

====
